---------------------------- MODULE Spec2Model ----------------------------
(***************************************************************************)
(* Verification model of the retrieval-augmented chat pipeline of Chat-ui: *)
(*   - the query rewriter        (src/lib/server/rag/queryRewriter.ts)     *)
(*   - the context assembler     (contextBuilder, src/unnamed/part_005)    *)
(*   - the Vector Index client   (src/lib/rag/client.ts and the server     *)
(*                                revision kept in urlSafety.ts)           *)
(*   - the file manager's list polling (RagFileManager, part_004)          *)
(*   - the proxy handlers        (upload POST, list GET, file DELETE)      *)
(* Strings are sequences of one-character strings, so that the regular     *)
(* expressions and string conversions of the code are computed, character  *)
(* by character, the way the code computes them.                           *)
(***************************************************************************)
EXTENDS Integers, Sequences, FiniteSets, TLC

VARIABLES
    \* ---- rewriteQueryWithHistory (queryRewriter.ts) ----
    userQuery,            \* argument: the query
    conversationHistory,  \* argument: sequence of [from, content]
    maxHistoryMessages,   \* option
    rwPc,                 \* "entry" | "invoke" | "drive" | "returned" | "threw"
    rwResult,             \* the string the promise resolved with
    rwLog,                \* tag of the last console message of the function
    rwCalls,              \* number of generateFromDefaultEndpoint invocations
    rwYields,             \* intermediate generator results consumed so far
    rwPrompt,             \* the history turns placed in the prompt
    rwRaw,                \* the generator's final value
    rwCleaned,
    rwRevision,           \* "current" (rag/queryRewriter.ts) or "earlier" (the copy in urlSafety.ts)            \* the post-processed model output
    \* ---- buildRagContextMessage (contextBuilder) ----
    chunks,               \* argument: sequence of ChatFileChunk
    ctxPc,                \* "idle" | "built" | "threw"
    ctxUnit,              \* <<>> or <<the RagContextMessage returned>>
    ctxPrev,              \* what ctxUnit was before the latest call
    ctxRuns,              \* number of calls made on chunks
    \* ---- RAGClient (shared client.ts, and the server revision) ----
    cliCall,              \* the call made: client revision, method, arguments
    cliPc,                \* "off" | "start" | "fetching" | "sleeping" | "returned" | "threw"
    cliWire,              \* the requests sent to the Vector Index Service, in order
    cliAttempt,           \* the loop counter i of pollFileStatus
    cliLast,              \* <<>> or <<the latest response: status, finishEmbedding>>
    cliReturn,            \* <<>> or <<the value the promise resolved with>>
    cliError,             \* <<>> or <<the Error the promise rejected with>>
    \* ---- RagFileManager.svelte and the service it talks to ----
    files,                \* $state: the records displayed
    loading,              \* $state
    uploading,            \* $state
    errorMsg,             \* $state: "" or the message displayed
    pollInterval,         \* 0 (undefined) or the handle of the interval timer
    fmTimers,             \* the interval timers alive in the runtime
    fmPhase,              \* "off" | "created" | "mounted" | "destroyed"
    fmInflight,           \* the requests awaiting their response, in issue order
    fmLast,               \* the handler that ran last, and what it was given
    srvFiles,             \* Vector Index Service: the tenant's records
    srvCreated,           \* Vector Index Service: number of records created so far
    \* ---- the proxy handlers: upload POST, list GET, file DELETE ----
    pxCall,               \* the handler invoked, event.locals and params.id
    pxPc,                 \* "off" | "start" | "fetching" | "responded"
    pxWire,               \* the requests sent to the Vector Index Service
    pxUpstream,           \* <<>> or <<the answer of the service>>
    pxResponse            \* <<>> or <<the response the caller of the handler receives>>

rwVars == <<userQuery, conversationHistory, maxHistoryMessages, rwPc, rwResult,
            rwLog, rwCalls, rwYields, rwPrompt, rwRaw, rwCleaned, rwRevision>>
ctxVars == <<chunks, ctxPc, ctxUnit, ctxPrev, ctxRuns>>
cliVars == <<cliCall, cliPc, cliWire, cliAttempt, cliLast, cliReturn, cliError>>

fmVars == <<files, loading, uploading, errorMsg, pollInterval, fmTimers, fmPhase,
            fmInflight, fmLast, srvFiles, srvCreated>>

pxVars == <<pxCall, pxPc, pxWire, pxUpstream, pxResponse>>

vars == <<rwVars, ctxVars, cliVars, fmVars, pxVars>>

\* the variables a component leaves alone
exceptRw == <<ctxVars, cliVars, fmVars, pxVars>>
exceptCtx == <<rwVars, cliVars, fmVars, pxVars>>
exceptCli == <<rwVars, ctxVars, fmVars, pxVars>>
exceptFm == <<rwVars, ctxVars, cliVars, pxVars>>
exceptPx == <<rwVars, ctxVars, cliVars, fmVars>>

----------------------------------------------------------------------------
(* Characters and strings                                                  *)

UpperLetters ==
    <<"A","B","C","D","E","F","G","H","I","J","K","L","M",
      "N","O","P","Q","R","S","T","U","V","W","X","Y","Z">>
LowerLetters ==
    <<"a","b","c","d","e","f","g","h","i","j","k","l","m",
      "n","o","p","q","r","s","t","u","v","w","x","y","z">>
Digits == {"0","1","2","3","4","5","6","7","8","9"}

Range(s) == { s[i] : i \in 1..Len(s) }
UpperSet == Range(UpperLetters)
WordChars == Range(UpperLetters) \cup Range(LowerLetters) \cup Digits \cup {"_"}

\* String.prototype.toLowerCase on one character
LowerChar(c) ==
    IF c \in UpperSet
    THEN LowerLetters[CHOOSE i \in 1..26 : UpperLetters[i] = c]
    ELSE c

\* String.prototype.toLowerCase
toLowerCase(s) == [i \in 1..Len(s) |-> LowerChar(s[i])]

\* the regular expression class \w
IsWordChar(c) == c \in WordChars

\* the regular expression class \s
IsSpaceChar(c) == c \in {" ", "\t", "\n", "\r"}

\* a character that '.' does not match
IsLineTerminator(c) == c \in {"\n", "\r"}

\* pattern p occurs in s starting at (1-based) position i
MatchAt(s, p, i) ==
    /\ i >= 1
    /\ i + Len(p) - 1 <= Len(s)
    /\ \A k \in 1..Len(p) : s[i + k - 1] = p[k]

\* String.prototype.includes
includes(s, p) == \E i \in 1..(Len(s) + 1) : MatchAt(s, p, i)

\* the regular expression assertion \b between positions i-1 and i of s
WordBoundary(s, i) ==
    LET before == i >= 2 /\ i - 1 <= Len(s) /\ IsWordChar(s[i - 1])
        after  == i >= 1 /\ i <= Len(s) /\ IsWordChar(s[i])
    IN  before # after

\* String.prototype.substring(0, n)
substring0(s, n) == IF Len(s) <= n THEN s ELSE SubSeq(s, 1, n)

\* the suffix of s that starts at (1-based) position i
From(s, i) == IF i > Len(s) THEN <<>> ELSE SubSeq(s, i, Len(s))

RECURSIVE TrimStart(_)
TrimStart(s) ==
    IF s # <<>> /\ IsSpaceChar(s[1]) THEN TrimStart(Tail(s)) ELSE s

RECURSIVE TrimEnd(_)
TrimEnd(s) ==
    IF s # <<>> /\ IsSpaceChar(s[Len(s)]) THEN TrimEnd(SubSeq(s, 1, Len(s) - 1)) ELSE s

\* String.prototype.trim, and .replace(/^\s+|\s+$/g, "")
trim(s) == TrimEnd(TrimStart(s))

ThinkOpen  == <<"<","t","h","i","n","k",">">>
ThinkClose == <<"<","/","t","h","i","n","k",">">>

\* .replace(/<think>[\s\S]*?<\/think>/gi, ""): every leftmost, shortest block
RECURSIVE StripThink(_)
StripThink(s) ==
    LET low    == toLowerCase(s)
        closes(i) == { j \in (i + Len(ThinkOpen))..Len(s) : MatchAt(low, ThinkClose, j) }
        opens  == { i \in 1..Len(s) : MatchAt(low, ThinkOpen, i) /\ closes(i) # {} }
    IN  IF opens = {} THEN s
        ELSE LET i == CHOOSE x \in opens : \A y \in opens : x <= y
                 j == CHOOSE x \in closes(i) : \A y \in closes(i) : x <= y
             IN  SubSeq(s, 1, i - 1) \o StripThink(From(s, j + Len(ThinkClose)))

\* the characters double quote, single quote and backquote (the backquote, which a
\* TLA+ string cannot hold, is the one-character atom "BQ")
QuoteChars == {"\"", "'", "BQ"}

RECURSIVE StripLeadingQuotes(_)
StripLeadingQuotes(s) ==
    IF s # <<>> /\ s[1] \in QuoteChars THEN StripLeadingQuotes(Tail(s)) ELSE s

RECURSIVE StripTrailingQuotes(_)
StripTrailingQuotes(s) ==
    IF s # <<>> /\ s[Len(s)] \in QuoteChars
    THEN StripTrailingQuotes(SubSeq(s, 1, Len(s) - 1)) ELSE s

\* .replace(/^[quotes]+|[quotes]+$/g, ""): the leading and the trailing run of quotes
StripQuotes(s) == StripTrailingQuotes(StripLeadingQuotes(s))

RewrittenQueryLabel == <<"r","e","w","r","i","t","t","e","n"," ","q","u","e","r","y",":">>
QueryLabel == <<"q","u","e","r","y",":">>

\* .replace(/^(rewritten query:|query:)/i, "")
StripLabel(s) ==
    LET low == toLowerCase(s)
    IN  IF MatchAt(low, RewrittenQueryLabel, 1) THEN From(s, Len(RewrittenQueryLabel) + 1)
        ELSE IF MatchAt(low, QueryLabel, 1) THEN From(s, Len(QueryLabel) + 1)
        ELSE s

----------------------------------------------------------------------------
(* queryRewriter.ts: the detectors                                         *)

FilenameExtensions ==
    { <<"p","y">>, <<"j","s">>, <<"t","s">>,
      <<"j","s","x">>, <<"t","s","x">>, <<"j","a","v","a">>,
      <<"g","o">>, <<"r","s">>, <<"c","p","p">>,
      <<"c">>, <<"h">>, <<"h","p","p">>,
      <<"r","b">>, <<"p","h","p">>, <<"s","w","i","f","t">>,
      <<"k","t">>, <<"s","c","a","l","a">>, <<"m","d">>,
      <<"t","x","t">>, <<"j","s","o","n">>, <<"y","a","m","l">>,
      <<"y","m","l">>, <<"t","o","m","l">>, <<"i","n","i">>,
      <<"c","f","g">>, <<"c","o","n","f">>, <<"x","m","l">>,
      <<"h","t","m","l">>, <<"c","s","s">>, <<"s","c","s","s">>,
      <<"s","q","l">>, <<"s","h">>, <<"b","a","s","h">>,
      <<"d","o","c","k","e","r","f","i","l","e">> }

\* /\w+\.(py|js|...|dockerfile)\b/i.test(query)
hasFilenameReference(query) ==
    LET low == toLowerCase(query)
    IN  \E i \in 2..Len(query) :
            /\ IsWordChar(query[i - 1])
            /\ query[i] = "."
            /\ \E e \in FilenameExtensions :
                   /\ MatchAt(low, e, i + 1)
                   /\ WordBoundary(query, i + 1 + Len(e))

actionVerbs ==
    { <<"s","u","m","m","a","r","i","z","e">>, <<"s","u","m","m","a","r","y">>,
      <<"e","x","p","l","a","i","n">>, <<"d","e","s","c","r","i","b","e">>,
      <<"s","h","o","w"," ","m","e">>, <<"w","h","a","t"," ","d","o","e","s">>,
      <<"w","h","a","t"," ","i","s">>, <<"t","e","l","l"," ","m","e"," ","a","b","o","u","t">>,
      <<"w","a","l","k"," ","t","h","r","o","u","g","h">>,
      <<"o","v","e","r","v","i","e","w"," ","o","f">> }

\* actionVerbs.some((verb) => query.toLowerCase().includes(verb))
isFileActionRequest(query) ==
    \E verb \in actionVerbs : includes(toLowerCase(query), verb)

technicalWords ==
    { <<"i","m","p","l","e","m","e","n","t","a","t","i","o","n">>,
      <<"f","u","n","c","t","i","o","n">>, <<"c","l","a","s","s">>,
      <<"m","e","t","h","o","d">>, <<"a","p","i">>,
      <<"e","n","d","p","o","i","n","t">>, <<"d","a","t","a","b","a","s","e">>,
      <<"q","u","e","r","y">>, <<"a","l","g","o","r","i","t","h","m">> }
problemWords ==
    { <<"b","u","g">>, <<"e","r","r","o","r">>, <<"i","s","s","u","e">>,
      <<"p","r","o","b","l","e","m">>, <<"f","i","x">> }
howWord == <<"h","o","w"," ">>
howVerbs == { <<"t","o">>, <<"d","o">>, <<"d","o","e","s">> }
inWords == { <<"i","n">>, <<"w","i","t","h">> }

\* \b w \b matches in s at position i (s already lower-cased)
WholeWordAt(s, w, i) ==
    WordBoundary(s, i) /\ MatchAt(s, w, i) /\ WordBoundary(s, i + Len(w))

\* technicalPatterns.some((pattern) => pattern.test(query))
isAlreadySearchFriendly(query) ==
    LET low == toLowerCase(query)
        pos == 1..Len(query)
    IN  \/ \E w \in technicalWords : \E i \in pos : WholeWordAt(low, w, i)
        \/ \E i \in pos :
               /\ WordBoundary(low, i)
               /\ MatchAt(low, howWord, i)
               /\ \E v \in howVerbs :
                      /\ MatchAt(low, v, i + Len(howWord))
                      /\ WordBoundary(low, i + Len(howWord) + Len(v))
        \/ \E w \in problemWords : \E i \in pos :
               /\ WholeWordAt(low, w, i)
               /\ \E v \in inWords : \E j \in (i + Len(w))..Len(low) :
                      /\ WholeWordAt(low, v, j)
                      /\ \A k \in (i + Len(w))..(j - 1) : ~IsLineTerminator(low[k])

----------------------------------------------------------------------------
(* queryRewriter.ts: rewriteQueryWithHistory                               *)

MinQueryLength == 5
MaxQueryLength == 500
HistoryPreviewLength == 300
MinRewriteCap == 150
RewriteCapFactor == 4
DefaultMaxHistoryMessages == 3

Max(a, b) == IF a >= b THEN a ELSE b
Min(a, b) == IF a <= b THEN a ELSE b

\* Array.prototype.slice(start), start possibly negative (and -0 = 0)
slice(arr, start) ==
    LET k == IF start < 0 THEN Max(Len(arr) + start, 0) ELSE Min(start, Len(arr))
    IN  From(arr, k + 1)

IsNotSystem(msg) == msg.from # "system"

\* conversationHistory.filter((msg) => msg.from !== "system").slice(-maxHistoryMessages)
recentHistory(history, n) == slice(SelectSeq(history, IsNotSystem), 0 - n)

\* one line of contextStr: the turn's author and its cleaned 300-character preview
ContextLine(msg) ==
    [from |-> msg.from,
     text |-> trim(StripThink(substring0(msg.content, HistoryPreviewLength)))]

\* contextStr, before the lines are joined
contextStr(recent) == [i \in 1..Len(recent) |-> ContextLine(recent[i])]

\* a plausible slip: the upper bound of the length check is missing
LengthOutOfRangeNoUpper(query) == Len(query) < MinQueryLength

\* skip condition 1: userQuery.length < 5 || userQuery.length > 500
LengthOutOfRange(query) ==
    Len(query) < MinQueryLength \/ Len(query) > MaxQueryLength

\* a plausible slip: skip condition 2 is absent, as in the earlier revision
FileSpecificActionAbsent(query) == FALSE

\* skip condition 2: hasFilenameReference(userQuery) && isFileActionRequest(userQuery)
IsFileSpecificAction(query) ==
    hasFilenameReference(query) /\ isFileActionRequest(query)

\* the skip conditions, in the order the function evaluates them
SkipReason(query, history, n) ==
    IF LengthOutOfRange(query) THEN "length"
    ELSE IF IsFileSpecificAction(query) THEN "fileAction"
    ELSE IF isAlreadySearchFriendly(query) THEN "searchFriendly"
    ELSE IF Len(recentHistory(history, n)) = 0 THEN "noHistory"
    ELSE "none"

\* the post-processing chain applied to the generator's final value
Clean(rewritten) == trim(StripLabel(trim(StripQuotes(StripThink(rewritten)))))

\* a plausible slip: the lost-filename check is absent, as in the earlier revision
LostFilenameUnchecked(query, cleaned) == FALSE

\* the rejection of a rewrite that lost the filename reference
LostFilename(query, cleaned) ==
    hasFilenameReference(query) /\ ~hasFilenameReference(cleaned)

\* a plausible slip: the two terms of the cap are added
RewriteCapSum(query) == MinRewriteCap + Len(query) * RewriteCapFactor

\* the length above which a rewrite is rejected
RewriteCap(query) == Max(MinRewriteCap, Len(query) * RewriteCapFactor)

\* the validation of the cleaned output, in the order of the checks
Validate(query, cleaned) ==
    IF Len(cleaned) = 0 THEN "empty"
    ELSE IF Len(cleaned) > RewriteCap(query) THEN "tooLong"
    ELSE IF toLowerCase(cleaned) = toLowerCase(query) THEN "identical"
    ELSE IF LostFilename(query, cleaned) THEN "lostFilename"
    ELSE "accepted"

\* a plausible slip: the catch block logs and rethrows
CatchRethrows(query) == [pc |-> "threw", result |-> <<>>, log |-> "failed"]

\* what the catch block does with an exception raised inside the try block
CatchOutcome(query) == [pc |-> "returned", result |-> query, log |-> "failed"]

----------------------------------------------------------------------------
(* The earlier revision of rewriteQueryWithHistory kept in urlSafety.ts    *)

EarlierMinRewriteCap == 120
EarlierRewriteCapFactor == 3

\* the two skip conditions of the earlier revision
EarlierSkipReason(query, history, n) ==
    IF LengthOutOfRange(query) THEN "length"
    ELSE IF Len(recentHistory(history, n)) = 0 THEN "noHistory"
    ELSE "none"

\* one line of contextStr: the author and the first 300 characters, as they are
EarlierContextLine(msg) ==
    [from |-> msg.from, text |-> substring0(msg.content, HistoryPreviewLength)]

EarlierContextStr(recent) == [i \in 1..Len(recent) |-> EarlierContextLine(recent[i])]

\* .replace(/^["']|["']$/g, ""): one quote at the start and one at the end
EarlierStripQuotes(s) ==
    LET t == IF s # <<>> /\ s[1] \in {"\"", "'"} THEN Tail(s) ELSE s
    IN  IF t # <<>> /\ t[Len(t)] \in {"\"", "'"} THEN SubSeq(t, 1, Len(t) - 1) ELSE t

EarlierClean(rewritten) == EarlierStripQuotes(trim(StripThink(rewritten)))

EarlierRewriteCap(query) ==
    Max(EarlierMinRewriteCap, Len(query) * EarlierRewriteCapFactor)

\* the single validation of the earlier revision
EarlierValidate(query, cleaned) ==
    IF Len(cleaned) = 0 THEN "empty"
    ELSE IF Len(cleaned) > EarlierRewriteCap(query) THEN "tooLong"
    ELSE "accepted"

----------------------------------------------------------------------------
(* The inputs the rewriter is run on                                       *)

MaxHist == 2      \* longest conversation history
MaxYields == 1    \* most intermediate results the generator yields

Pad(n) == [i \in 1..n |-> "x"]

qHi == <<"h","i">>
qFour == <<"a","b","c","d">>
qFive == <<"f","i","x","i","t">>
qFixIt == <<"f","i","x"," ","i","t">>
qFixThatBug == <<"f","i","x"," ","t","h","a","t"," ","b","u","g">>
qSummarizeFile == <<"s","u","m","m","a","r","i","z","e"," ","a","u","t","h",".","p","y">>
qExplainFileUpper == <<"E","x","p","l","a","i","n"," ","A","u","t","h",".","P","Y">>
qFixFile == <<"f","i","x"," ","a","u","t","h",".","p","y">>
qFixFileUpper == <<"F","I","X"," ","A","U","T","H",".","P","Y">>
qHowTo == <<"h","o","w"," ","t","o"," ","r","u","n">>
qBugIn == <<"f","i","x"," ","b","u","g"," ","i","n"," ","i","t">>
qTheApi == <<"t","h","e"," ","a","p","i">>
qNotAFile == <<"o","p","e","n"," ","a","u","t","h",".","p","y","x">>
qSummarizeIt == <<"s","u","m","m","a","r","i","z","e"," ","i","t">>
qLong40 == Pad(40)
qLongest == Pad(MaxQueryLength)
qTooLong == Pad(MaxQueryLength + 1)

Queries ==
    { qHi, qFour, qFive, qFixIt,
      qFixThatBug, qSummarizeFile, qExplainFileUpper, qFixFile,
      qFixFileUpper, qHowTo, qBugIn, qTheApi,
      qNotAFile, qSummarizeIt,
      qLong40, qLongest, qTooLong }

oEmpty == <<>>
oBlank == <<" "," "," ">>
oWithFile == <<"a","u","t","h",".","p","y"," ","l","o","g","i","n"," ","b","u","g"," ","f","i","x">>
oNoFile == <<"l","o","g","i","n"," ","b","u","g"," ","f","i","x">>
oThinkFile == <<"<","t","h","i","n","k",">","s","e","e"," ","a","u","t","h",".","p","y","<","/","t","h","i","n","k",">","l","o","g","i","n"," ","b","u","g">>
oQuotedFile == <<"\"","a","u","t","h",".","p","y"," ","l","o","g","i","n","\"">>
oLabelled == <<"R","e","w","r","i","t","t","e","n"," ","q","u","e","r","y",":"," ","l","o","g","i","n"," ","b","u","g">>
oOpenThink == <<"<","t","h","i","n","k",">","a","u","t","h",".","p","y"," ","l","o","g","i","n">>
oFixFileUpper2 == <<"F","i","x"," ","A","u","t","h",".","p","y">>

\* what the rewriting model may answer to a query: fixed texts, the query itself,
\* and texts just below and above the two length caps
ModelOutputs(query) ==
    { oEmpty, oBlank, oWithFile, oNoFile,
      oThinkFile, oQuotedFile, oLabelled, oOpenThink,
      oFixFileUpper2,
      query, Pad(MinRewriteCap), Pad(MinRewriteCap + 1),
      Pad(RewriteCapFactor * 40), Pad(RewriteCapFactor * 40 + 1) }

cLogin == <<"l","o","g","i","n"," ","f","a","i","l","s"," ","i","n"," ","a","u","t","h",".","p","y">>
cThink == <<"<","t","h","i","n","k",">","h","m","<","/","t","h","i","n","k",">"," ","o","k">>
cSystem == <<"b","e"," ","b","r","i","e","f">>

Turns ==
    { [from |-> "user", content |-> cLogin],
      [from |-> "assistant", content |-> cThink \o Pad(HistoryPreviewLength)],
      [from |-> "system", content |-> cSystem] }

RECURSIVE SeqsUpTo(_, _)
SeqsUpTo(S, n) ==
    IF n = 0 THEN { <<>> }
    ELSE LET shorter == SeqsUpTo(S, n - 1)
         IN  shorter \cup { Append(q, x) : q \in shorter, x \in S }

Histories == SeqsUpTo(Turns, MaxHist)
HistoryLimits == 0..DefaultMaxHistoryMessages

----------------------------------------------------------------------------
(* rewriteQueryWithHistory as a state machine: one action per stretch of   *)
(* code between two awaits                                                 *)

\* the rewriter before any call
IdleRewrite ==
    /\ userQuery = <<>>
    /\ conversationHistory = <<>>
    /\ maxHistoryMessages = DefaultMaxHistoryMessages
    /\ rwPc = "idle"
    /\ rwResult = <<>>
    /\ rwLog = "none"
    /\ rwCalls = 0
    /\ rwYields = 0
    /\ rwPrompt = <<>>
    /\ rwRaw = <<>>
    /\ rwCleaned = <<>>
    /\ rwRevision = "current"

CalledRewrite ==
    /\ userQuery \in Queries
    /\ conversationHistory \in Histories
    /\ maxHistoryMessages \in HistoryLimits
    /\ rwPc = "entry"
    /\ rwResult = <<>>
    /\ rwLog = "none"
    /\ rwCalls = 0
    /\ rwYields = 0
    /\ rwPrompt = <<>>
    /\ rwRaw = <<>>
    /\ rwCleaned = <<>>
    /\ rwRevision = "current"

Revisions == {"current", "earlier"}

\* a call of either revision of the function
CalledEitherRevision ==
    /\ userQuery \in Queries
    /\ conversationHistory \in Histories
    /\ maxHistoryMessages \in HistoryLimits
    /\ rwPc = "entry"
    /\ rwResult = <<>>
    /\ rwLog = "none"
    /\ rwCalls = 0
    /\ rwYields = 0
    /\ rwPrompt = <<>>
    /\ rwRaw = <<>>
    /\ rwCleaned = <<>>
    /\ rwRevision \in Revisions

\* lines 69-120: the skip conditions, then the prompt when none applies
EntryOutcome(query, history, n) ==
    LET reason == SkipReason(query, history, n)
    IN  IF reason # "none"
        THEN [pc |-> "returned", result |-> query, log |-> reason, prompt |-> <<>>]
        ELSE [pc |-> "invoke", result |-> <<>>, log |-> "none",
              prompt |-> contextStr(recentHistory(history, n))]

\* urlSafety.ts lines 223-243: the same for the earlier revision
EarlierEntryOutcome(query, history, n) ==
    LET reason == EarlierSkipReason(query, history, n)
    IN  IF reason # "none"
        THEN [pc |-> "returned", result |-> query, log |-> reason, prompt |-> <<>>]
        ELSE [pc |-> "invoke", result |-> <<>>, log |-> "none",
              prompt |-> EarlierContextStr(recentHistory(history, n))]

RewriteEntry ==
    /\ rwPc = "entry"
    /\ LET out == IF rwRevision = "earlier"
                  THEN EarlierEntryOutcome(userQuery, conversationHistory,
                                           maxHistoryMessages)
                  ELSE EntryOutcome(userQuery, conversationHistory, maxHistoryMessages)
       IN  /\ rwPc' = out.pc
           /\ rwResult' = out.result
           /\ rwLog' = out.log
           /\ rwPrompt' = out.prompt
    /\ UNCHANGED exceptRw
    /\ UNCHANGED <<userQuery, conversationHistory, maxHistoryMessages, rwCalls,
                   rwYields, rwRaw, rwCleaned, rwRevision>>

\* line 130: generateFromDefaultEndpoint(...) returns the generator
InvokeModel ==
    /\ rwPc = "invoke"
    /\ rwPc' = "drive"
    /\ rwCalls' = rwCalls + 1
    /\ UNCHANGED exceptRw
    /\ UNCHANGED <<userQuery, conversationHistory, maxHistoryMessages, rwResult,
                   rwLog, rwYields, rwPrompt, rwRaw, rwCleaned, rwRevision>>

\* line 130 raises: the catch block of lines 228-231
InvokeModelThrows ==
    /\ rwPc = "invoke"
    /\ rwCalls' = rwCalls + 1
    /\ LET out == CatchOutcome(userQuery)
       IN  rwPc' = out.pc /\ rwResult' = out.result /\ rwLog' = out.log
    /\ UNCHANGED exceptRw
    /\ UNCHANGED <<userQuery, conversationHistory, maxHistoryMessages,
                   rwYields, rwPrompt, rwRaw, rwCleaned, rwRevision>>

\* lines 177-180: generator.next() resolves with done = false; the value is ignored
GeneratorYields ==
    /\ rwPc = "drive"
    /\ rwYields < MaxYields
    /\ rwYields' = rwYields + 1
    /\ UNCHANGED exceptRw
    /\ UNCHANGED <<userQuery, conversationHistory, maxHistoryMessages, rwPc, rwResult,
                   rwLog, rwCalls, rwPrompt, rwRaw, rwCleaned, rwRevision>>

\* lines 177-180: generator.next() rejects: the catch block of lines 228-231
GeneratorThrows ==
    /\ rwPc = "drive"
    /\ LET out == CatchOutcome(userQuery)
       IN  rwPc' = out.pc /\ rwResult' = out.result /\ rwLog' = out.log
    /\ UNCHANGED exceptRw
    /\ UNCHANGED <<userQuery, conversationHistory, maxHistoryMessages, rwCalls,
                   rwYields, rwPrompt, rwRaw, rwCleaned, rwRevision>>

\* lines 181-227: generator.next() resolves with done = true; post-processing and validation
GeneratorReturns ==
    /\ rwPc = "drive"
    /\ \E rewritten \in ModelOutputs(userQuery) :
           LET cleaned == IF rwRevision = "earlier" THEN EarlierClean(rewritten)
                          ELSE Clean(rewritten)
               verdict == IF rwRevision = "earlier"
                          THEN EarlierValidate(userQuery, cleaned)
                          ELSE Validate(userQuery, cleaned)
           IN  /\ rwRaw' = rewritten
               /\ rwCleaned' = cleaned
               /\ rwLog' = verdict
               /\ rwResult' = IF verdict = "accepted" THEN cleaned ELSE userQuery
    /\ rwPc' = "returned"
    /\ UNCHANGED exceptRw
    /\ UNCHANGED <<userQuery, conversationHistory, maxHistoryMessages, rwCalls,
                   rwYields, rwPrompt, rwRevision>>

NextRewrite ==
    \/ RewriteEntry
    \/ InvokeModel
    \/ InvokeModelThrows
    \/ GeneratorYields
    \/ GeneratorThrows
    \/ GeneratorReturns


----------------------------------------------------------------------------
(* Properties of the rewriter                                              *)

ModelAnswered == rwLog \in {"empty", "tooLong", "identical", "lostFilename", "accepted"}

\* C1: a query shorter than 5 or longer than 500 characters is returned
\* unchanged, whatever the history and the options, and the rewriting model is
\* never invoked for it.
C1_LengthGateReturnsInput ==
    (Len(userQuery) < 5 \/ Len(userQuery) > 500) =>
        /\ rwPc \in {"entry", "returned"}
        /\ rwCalls = 0
        /\ rwPc = "returned" => rwResult = userQuery

C1_Witness ==
    /\ rwPc = "returned"
    /\ Len(userQuery) > 500
    /\ recentHistory(conversationHistory, maxHistoryMessages) # <<>>

\* C2: a query holding both a filename token and an action-intent phrase is
\* returned unchanged, whatever the history and whatever the model would answer.
C2_FileActionReturnsInput ==
    (hasFilenameReference(userQuery) /\ isFileActionRequest(userQuery)) =>
        /\ rwPc \in {"entry", "returned"}
        /\ rwPc = "returned" => rwResult = userQuery

C2_Witness ==
    /\ rwPc = "returned"
    /\ hasFilenameReference(userQuery) /\ isFileActionRequest(userQuery)
    /\ Len(userQuery) >= 5 /\ Len(userQuery) <= 500
    /\ recentHistory(conversationHistory, maxHistoryMessages) # <<>>

\* C3: when the query holds a filename token and the cleaned model output holds
\* none, the output is discarded and the query returned; hence the value
\* returned for a query with a filename token always holds a filename token.
C3_FilenameNeverLost ==
    (rwPc = "returned" /\ hasFilenameReference(userQuery)) =>
        /\ hasFilenameReference(rwResult)
        /\ (ModelAnswered /\ ~hasFilenameReference(rwCleaned)) => rwResult = userQuery

C3_Witness ==
    /\ rwPc = "returned"
    /\ hasFilenameReference(userQuery)
    /\ ModelAnswered
    /\ rwCleaned # <<>>
    /\ ~hasFilenameReference(rwCleaned)

\* C4: whatever the model does (any text, an exception at invocation, an
\* exception while the generator is driven) the function raises no error, is
\* never stuck while it waits for the model, and returns either the query or
\* the cleaned model output that passed every acceptance check.
C4_NeverThrows ==
    /\ rwPc # "threw"
    /\ rwPc \in {"invoke", "drive"} => ENABLED (InvokeModel \/ GeneratorReturns)
    /\ rwPc = "returned" =>
          \/ rwResult = userQuery
          \/ /\ ModelAnswered
             /\ rwResult = rwCleaned
             /\ Len(rwResult) > 0
             /\ Len(rwResult) <= (IF 4 * Len(userQuery) > 150 THEN 4 * Len(userQuery) ELSE 150)
             /\ toLowerCase(rwResult) # toLowerCase(userQuery)
             /\ hasFilenameReference(userQuery) => hasFilenameReference(rwResult)

C4_Witness ==
    /\ rwPc = "returned"
    /\ rwLog = "failed"
    /\ rwCalls = 1
    /\ rwResult = userQuery

\* max(150, 4 x length of the original query)
StatedCap == IF 4 * Len(userQuery) > 150 THEN 4 * Len(userQuery) ELSE 150

\* C17: in both revisions a cleaned model output longer than
\* max(150, 4 x original length) is rejected and the original returned, so a
\* returned string that differs from the original never exceeds that length.
C17_RewriteLengthCapped ==
    rwPc = "returned" =>
        /\ (ModelAnswered /\ Len(rwCleaned) > StatedCap) => rwResult = userQuery
        /\ rwResult # userQuery => Len(rwResult) <= StatedCap

\* C17 witness: the current revision has rejected an output one character
\* longer than four times a query of 40 characters.
C17_Witness ==
    /\ rwPc = "returned"
    /\ rwRevision = "current"
    /\ Len(userQuery) = 40
    /\ Len(rwCleaned) = 161
    /\ rwLog = "tooLong"
    /\ rwResult = userQuery

\* the last n elements of a sequence, none when n is 0
LastTurns(seq, n) ==
    IF n >= Len(seq) THEN seq ELSE SubSeq(seq, Len(seq) - n + 1, Len(seq))

\* the usable history: the last N turns that the system did not author
UsableHistory ==
    LET IsTurn(msg) == msg.from \in {"user", "assistant"}
    IN  LastTurns(SelectSeq(conversationHistory, IsTurn), maxHistoryMessages)

LengthGate == Len(userQuery) < 5 \/ Len(userQuery) > 500
FileActionGate == hasFilenameReference(userQuery) /\ isFileActionRequest(userQuery)
SearchFriendlyGate == isAlreadySearchFriendly(userQuery)
HistoryGate == UsableHistory = <<>>

\* the first gate that matches, in the stated order
FirstGate ==
    IF LengthGate THEN "length"
    ELSE IF FileActionGate THEN "fileAction"
    ELSE IF SearchFriendlyGate THEN "searchFriendly"
    ELSE IF HistoryGate THEN "noHistory"
    ELSE "none"

\* C18: whenever one of the four gates matches (length outside [5,500];
\* filename plus action; search-friendly; no usable history among the last N
\* non-system turns) the model is never invoked and the query is returned,
\* the skip reported being that of the first matching gate in this order.
C18_GatesPrecedeModel ==
    FirstGate # "none" =>
        /\ rwPc \in {"entry", "returned"}
        /\ rwCalls = 0
        /\ rwPc = "returned" => (rwResult = userQuery /\ rwLog = FirstGate)

\* the authors of the turns placed in the prompt
PromptAuthors == [i \in 1..Len(rwPrompt) |-> rwPrompt[i].from]

\* C20: for every N >= 0 the history placed in the rewrite prompt is the last
\* N non-system turns in their order, hence at most N turns and none of the
\* system; when there is none, the query is returned and no prompt is built.
C20_PromptHoldsLastNTurns ==
    rwPc # "entry" =>
        /\ Len(rwPrompt) <= maxHistoryMessages
        /\ \A i \in 1..Len(rwPrompt) : rwPrompt[i].from # "system"
        /\ (rwPc \in {"invoke", "drive"} \/ rwCalls > 0) =>
               PromptAuthors = [i \in 1..Len(UsableHistory) |-> UsableHistory[i].from]
        /\ (UsableHistory = <<>>) =>
               (rwPc = "returned" /\ rwResult = userQuery /\ rwCalls = 0)

----------------------------------------------------------------------------
(* contextBuilder: buildRagContextMessage                                  *)

langMap ==
    { <<<<"p","y">>, "python">>, <<<<"j","s">>, "javascript">>, <<<<"t","s">>, "typescript">>,
      <<<<"t","s","x">>, "typescript">>, <<<<"j","s","x">>, "javascript">>, <<<<"j","a","v","a">>, "java">>,
      <<<<"c","p","p">>, "cpp">>, <<<<"c">>, "c">>, <<<<"g","o">>, "go">>, <<<<"r","s">>, "rust">>,
      <<<<"r","b">>, "ruby">>, <<<<"p","h","p">>, "php">>, <<<<"s","w","i","f","t">>, "swift">>,
      <<<<"k","t">>, "kotlin">>, <<<<"c","s">>, "csharp">> }

\* filename.split(".").pop(): what follows the last dot, or the whole name
RECURSIVE LastSegment(_)
LastSegment(name) ==
    IF \E i \in 1..Len(name) : name[i] = "."
    THEN LastSegment(From(name, 1 + CHOOSE i \in 1..Len(name) : name[i] = "."
                                         /\ \A j \in 1..(i - 1) : name[j] # "."))
    ELSE name

getLanguageFromFilename(filename) ==
    LET ext == toLowerCase(LastSegment(filename))
    IN  IF \E p \in langMap : p[1] = ext
        THEN (CHOOSE p \in langMap : p[1] = ext)[2]
        ELSE "text"

\* (similarity * 100).toFixed(0), the similarity given in thousandths
relevancePercent(similarity) == (similarity + 5) \div 10

rolePriority(role) ==
    CASE role = "entry" -> 1
      [] role = "dependency" -> 2
      [] role = "supporting" -> 3

\* a plausible slip: the comparator of an ascending sort written the other way round
compareRoleReversed(a, b) == rolePriority(b.role) - rolePriority(a.role)

\* the comparator passed to sort
compareRole(a, b) == rolePriority(a.role) - rolePriority(b.role)

\* x placed in the sorted sequence behind every element that does not compare greater
RECURSIVE InsertSorted(_, _)
InsertSorted(sorted, x) ==
    IF sorted = <<>> THEN <<x>>
    ELSE LET last == sorted[Len(sorted)]
         IN  IF compareRole(x, last) < 0
             THEN Append(InsertSorted(SubSeq(sorted, 1, Len(sorted) - 1), x), last)
             ELSE Append(sorted, x)

\* [...chunks].sort(comparator): Array.prototype.sort is stable
RECURSIVE sortedChunks(_)
sortedChunks(arr) ==
    IF arr = <<>> THEN <<>>
    ELSE InsertSorted(sortedChunks(SubSeq(arr, 1, Len(arr) - 1)), arr[Len(arr)])

\* one <coderef> block
formatChunk(chunk, idx) ==
    [id |-> chunk.id, index |-> idx + 1, file |-> chunk.filename,
     relevance |-> relevancePercent(chunk.similarity), role |-> chunk.role,
     line |-> chunk.pageNumber,
     lang |-> getLanguageFromFilename(chunk.filename), text |-> trim(chunk.text)]

\* the blocks of the message content, in the order they are joined
formattedChunks(arr) ==
    LET sorted == sortedChunks(arr)
    IN  [i \in 1..Len(sorted) |-> formatChunk(sorted[i], i - 1)]

\* metadata.chunkIds: chunks.map((c) => c.id)
chunkIdsOf(arr) == [i \in 1..Len(arr) |-> arr[i].id]

\* the message returned for a non-empty chunk sequence
RagContextMessage(arr, messageId) ==
    [from |-> "system", content |-> formattedChunks(arr), id |-> messageId,
     metadata |-> [type |-> "rag-context", chunkIds |-> chunkIdsOf(arr)]]

----------------------------------------------------------------------------
(* The inputs the assembler is run on                                      *)

MaxChunks == 3     \* longest chunk sequence
NumChunkIds == 2   \* number of distinct chunk ids
MaxRuns == 2       \* calls made on the same sequence

Roles == {"entry", "dependency", "supporting"}
FileNames == << <<"a","u","t","h",".","p","y">>, <<"R","E","A","D","M","E">>, <<"A","p","p",".","T","S","X">> >>
Similarities == <<875, 1000, 304>>
PageNumbers == <<12, 0, 3>>

ChunkPool ==
    { [id |-> i, role |-> r, filename |-> FileNames[(i % 3) + 1],
       similarity |-> Similarities[(i % 3) + 1], pageNumber |-> PageNumbers[(i % 3) + 1],
       text |-> <<" ", "x", " ">>] : i \in 1..NumChunkIds, r \in Roles }

ChunkSequences == SeqsUpTo(ChunkPool, MaxChunks)

\* `rag_${Date.now()}_${random}`: two calls need not get the same id
MessageIds == {"rag_a", "rag_b"}

IdleContext ==
    /\ chunks = <<>>
    /\ ctxPc = "off"
    /\ ctxUnit = <<>>
    /\ ctxPrev = <<>>
    /\ ctxRuns = 0

CalledContext ==
    /\ chunks \in ChunkSequences
    /\ ctxPc = "idle"
    /\ ctxUnit = <<>>
    /\ ctxPrev = <<>>
    /\ ctxRuns = 0

\* a plausible slip: the guard against an empty sequence is missing
emptyChunksUnchecked(arr) == FALSE

\* line 51: chunks.length === 0
emptyChunks(arr) == Len(arr) = 0

\* lines 51-53: an empty sequence throws
BuildContextThrows ==
    /\ ctxPc # "off"
    /\ ctxRuns < MaxRuns
    /\ emptyChunks(chunks)
    /\ ctxPc' = "threw"
    /\ ctxUnit' = <<>>
    /\ ctxPrev' = ctxUnit
    /\ ctxRuns' = ctxRuns + 1
    /\ UNCHANGED chunks
    /\ UNCHANGED exceptCtx

\* lines 55-107: sort, format, wrap
BuildContext ==
    /\ ctxPc # "off"
    /\ ctxRuns < MaxRuns
    /\ ~emptyChunks(chunks)
    /\ \E messageId \in MessageIds :
           ctxUnit' = <<RagContextMessage(chunks, messageId)>>
    /\ ctxPc' = "built"
    /\ ctxPrev' = ctxUnit
    /\ ctxRuns' = ctxRuns + 1
    /\ UNCHANGED chunks
    /\ UNCHANGED exceptCtx

NextContext ==
    \/ BuildContextThrows
    \/ BuildContext

----------------------------------------------------------------------------
(* Properties of the assembler                                             *)

RoleRank(role) == IF role = "entry" THEN 1 ELSE IF role = "dependency" THEN 2 ELSE 3

IdsWithRole(records, role) ==
    LET HasRole(x) == x.role = role
        kept == SelectSeq(records, HasRole)
    IN  [i \in 1..Len(kept) |-> kept[i].id]

BlockIds(unit) == [i \in 1..Len(unit.content) |-> unit.content[i].id]

\* C5: for a non-empty input the blocks come out as all entry chunks, then all
\* dependency chunks, then all supporting chunks, each group in its input
\* order, and a second assembly of the same input gives the same block order.
C5_RoleGroupedStable ==
    ctxPc = "built" =>
        LET blocks == ctxUnit[1].content
        IN  /\ Len(blocks) = Len(chunks)
            /\ \A i, j \in 1..Len(blocks) :
                   i < j => RoleRank(blocks[i].role) <= RoleRank(blocks[j].role)
            /\ \A r \in Roles : IdsWithRole(blocks, r) = IdsWithRole(chunks, r)
            /\ ctxPrev # <<>> => BlockIds(ctxPrev[1]) = BlockIds(ctxUnit[1])

C5_Witness ==
    /\ ctxPc = "built"
    /\ ctxRuns = 2
    /\ ctxPrev # <<>>
    /\ ctxPrev[1].id # ctxUnit[1].id
    /\ Len(chunks) = 3
    /\ chunks[1].role = "supporting" /\ chunks[2].role = "entry" /\ chunks[3].role = "entry"
    /\ chunks[2].id # chunks[3].id

\* C6: the chunkIds of the returned unit list the chunk ids in the order of the
\* emitted blocks: the i-th chunkId is the id of the i-th block.
C6_ChunkIdsPostSort ==
    ctxPc = "built" => ctxUnit[1].metadata.chunkIds = BlockIds(ctxUnit[1])

\* C7: an empty chunk sequence fails with an error and yields no unit; a single
\* chunk of role entry yields a unit whose chunkIds is that chunk's id alone.
C7_EmptyThrowsSingleEntry ==
    ctxRuns > 0 =>
        /\ Len(chunks) = 0 => (ctxPc = "threw" /\ ctxUnit = <<>>)
        /\ (Len(chunks) = 1 /\ chunks[1].role = "entry") =>
               /\ ctxPc = "built"
               /\ ctxUnit[1].metadata.chunkIds = <<chunks[1].id>>

C7_Witness ==
    /\ ctxRuns > 0
    /\ Len(chunks) = 0
    /\ ctxPc = "threw"

\* the positions of a sequence of ids that hold the given id
Occurrences(ids, id) == { i \in 1..Len(ids) : ids[i] = id }

\* C19: the assembled unit is deduplicated: whatever the input, also one that
\* holds the same chunk id more than once, each chunk id is in at most one
\* emitted block and at most once in chunkIds.
C19_UnitIsDeduplicated ==
    ctxPc = "built" =>
        \A id \in 1..NumChunkIds :
            /\ Cardinality(Occurrences(BlockIds(ctxUnit[1]), id)) <= 1
            /\ Cardinality(Occurrences(ctxUnit[1].metadata.chunkIds, id)) <= 1

----------------------------------------------------------------------------
(* RAGClient: the shared client (src/lib/rag/client.ts) and the server     *)
(* revision (the client kept in urlSafety.ts), which alone has             *)
(* pollFileStatus                                                          *)

DefaultTopK == 5
DefaultMaxAttempts == 30
NotFound == 404

\* response.ok: a status in 200..299
ok(status) == status >= 200 /\ status <= 299

\* request.top_k || 5
topKOf(requested) == IF requested = 0 THEN DefaultTopK ELSE requested

\* the fetch of semanticSearch, the same in both revisions
SearchRequest(call) ==
    [path |-> <<"/api/v1/rag/chunk/semanticSearchForChat">>, method |-> "POST",
     headers |-> { <<"Content-Type", "application/json">>, <<"X-User-ID", call.userId>> },
     body |-> <<[top_k |-> topKOf(call.topK)]>>]

\* the fetch of pollFileStatus: no options, hence GET and no headers
StatusRequest(call) ==
    [path |-> <<"/api/v1/rag/file/", call.fileId>>, method |-> "GET",
     headers |-> {}, body |-> <<>>]

\* the fetch of listFiles, uploadFiles and deleteFile, alike in both revisions
FileRequest(call) ==
    [path |-> IF call.op = "listFiles" THEN <<"/api/v1/rag/files">>
              ELSE IF call.op = "uploadFiles" THEN <<"/api/v1/rag/file/upload">>
              ELSE <<"/api/v1/rag/file/", call.fileId>>,
     method |-> IF call.op = "listFiles" THEN "GET"
                ELSE IF call.op = "uploadFiles" THEN "POST" ELSE "DELETE",
     headers |-> { <<"X-User-ID", call.userId>> },
     body |-> <<>>]

\* the Error thrown on a response that is not ok: its message, and the status
\* number when the message holds it (0 when it holds response.statusText or the
\* response text instead)
FileError(client, op, status, text) ==
    IF client = "server"
    THEN [message |-> IF op = "uploadFiles" THEN "File upload failed"
                      ELSE "File deletion failed",
          status |-> status]
    ELSE [message |-> IF op = "listFiles" THEN "Failed to list files"
                      ELSE IF op = "deleteFile" THEN "Delete failed"
                      ELSE IF text # "" THEN text ELSE "Upload failed",
          status |-> 0]

\* listFiles, uploadFiles, deleteFile from the response on
FileOutcome(client, op, status, text) ==
    IF ~ok(status)
    THEN [pc |-> "threw", return |-> <<>>, error |-> <<FileError(client, op, status, text)>>]
    ELSE [pc |-> "returned", return |-> <<op>>, error |-> <<>>]

EmptySearchResult == [chunks |-> <<>>, queryId |-> ""]

\* shared client, lines 105-110
SharedSearchOutcome(status, body) ==
    IF ~ok(status)
    THEN [pc |-> "threw", return |-> <<>>,
          error |-> <<[message |-> "RAG Semantic Search failed", status |-> status]>>]
    ELSE [pc |-> "returned", return |-> <<body>>, error |-> <<>>]

\* server revision, urlSafety.ts lines 111-119
ServerSearchOutcome(status, body) ==
    IF ~ok(status)
    THEN IF status = NotFound
         THEN [pc |-> "returned", return |-> <<EmptySearchResult>>, error |-> <<>>]
         ELSE [pc |-> "threw", return |-> <<>>,
               error |-> <<[message |-> "RAG search failed", status |-> status]>>]
    ELSE [pc |-> "returned", return |-> <<body>>, error |-> <<>>]

SearchOutcome(client, status, body) ==
    IF client = "shared" THEN SharedSearchOutcome(status, body)
    ELSE ServerSearchOutcome(status, body)

\* a plausible slip: the loop runs while i <= maxAttempts
PollLoopRunsInclusive(i, maxAttempts) == i <= maxAttempts

\* the loop condition of pollFileStatus: i < maxAttempts
PollLoopRuns(i, maxAttempts) == i < maxAttempts

\* urlSafety.ts lines 160-170: what one status response does to the loop
PollOutcome(status, finishEmbedding) ==
    IF ~ok(status)
    THEN [pc |-> "threw", return |-> <<>>,
          error |-> <<[message |-> "File status check failed", status |-> status]>>]
    ELSE IF finishEmbedding = "true"
    THEN [pc |-> "returned", return |-> <<TRUE>>, error |-> <<>>]
    ELSE [pc |-> "sleeping", return |-> <<>>, error |-> <<>>]

----------------------------------------------------------------------------
(* The calls made on the client and the answers of the Vector Index Service *)

MaxPollAttempts == 3   \* largest maxAttempts passed explicitly

UserIds == {"user-1", "session-1"}
FileIds == {"f1", "f2"}
Statuses == {200, 201, 401, NotFound, 500}
SearchBodies ==
    { [chunks |-> <<>>, queryId |-> "q0"],
      [chunks |-> <<"c1", "c2">>, queryId |-> "q1"] }
\* data.finishEmbedding of a status response: true, false, or not a boolean true
FinishValues == {"true", "false", "absent"}

SearchCalls ==
    [client : {"shared", "server"}, op : {"semanticSearch"}, userId : UserIds,
     topK : {0, 3}, fileId : {""}, maxAttempts : {0}]

PollCalls ==
    [client : {"server"}, op : {"pollFileStatus"}, userId : {""},
     topK : {0}, fileId : FileIds,
     maxAttempts : (0..MaxPollAttempts) \cup {DefaultMaxAttempts}]

\* getTenantId() of the file manager yields "" when the page has neither a user
\* nor a session id
TenantIds == UserIds \cup {""}
ErrorTexts == {"", "detail"}

FileCalls ==
    [client : {"shared"}, op : {"listFiles", "uploadFiles", "deleteFile"},
     userId : TenantIds, topK : {0}, fileId : {"f1"}, maxAttempts : {0}]
    \cup
    [client : {"server"}, op : {"uploadFiles", "deleteFile"},
     userId : UserIds, topK : {0}, fileId : {"f1"}, maxAttempts : {0}]

IdleClient ==
    /\ cliCall = [client |-> "shared", op |-> "none", userId |-> "", topK |-> 0,
                  fileId |-> "", maxAttempts |-> 0]
    /\ cliPc = "off"
    /\ cliWire = <<>>
    /\ cliAttempt = 0
    /\ cliLast = <<>>
    /\ cliReturn = <<>>
    /\ cliError = <<>>

CalledClient ==
    /\ cliCall \in SearchCalls \cup PollCalls \cup FileCalls
    /\ cliPc = "start"
    /\ cliWire = <<>>
    /\ cliAttempt = 0
    /\ cliLast = <<>>
    /\ cliReturn = <<>>
    /\ cliError = <<>>

\* semanticSearch up to its await fetch(...)
SearchFetch ==
    /\ cliPc = "start"
    /\ cliCall.op = "semanticSearch"
    /\ cliWire' = Append(cliWire, SearchRequest(cliCall))
    /\ cliPc' = "fetching"
    /\ UNCHANGED <<cliCall, cliAttempt, cliLast, cliReturn, cliError>>
    /\ UNCHANGED exceptCli

\* semanticSearch from the response to its return or throw
SearchResponse ==
    /\ cliPc = "fetching"
    /\ cliCall.op = "semanticSearch"
    /\ \E status \in Statuses, body \in SearchBodies :
           LET out == SearchOutcome(cliCall.client, status, body)
           IN  /\ cliPc' = out.pc
               /\ cliReturn' = out.return
               /\ cliError' = out.error
               /\ cliLast' = <<[status |-> status, finishEmbedding |-> "absent"]>>
    /\ UNCHANGED <<cliCall, cliWire, cliAttempt>>
    /\ UNCHANGED exceptCli

\* listFiles, uploadFiles or deleteFile up to its await fetch(...)
FileFetch ==
    /\ cliPc = "start"
    /\ cliCall.op \in {"listFiles", "uploadFiles", "deleteFile"}
    /\ cliWire' = Append(cliWire, FileRequest(cliCall))
    /\ cliPc' = "fetching"
    /\ UNCHANGED <<cliCall, cliAttempt, cliLast, cliReturn, cliError>>
    /\ UNCHANGED exceptCli

\* listFiles, uploadFiles or deleteFile from the response to its return or throw
FileResponse ==
    /\ cliPc = "fetching"
    /\ cliCall.op \in {"listFiles", "uploadFiles", "deleteFile"}
    /\ \E status \in Statuses, text \in ErrorTexts :
           LET out == FileOutcome(cliCall.client, cliCall.op, status, text)
           IN  /\ cliPc' = out.pc
               /\ cliReturn' = out.return
               /\ cliError' = out.error
               /\ cliLast' = <<[status |-> status, finishEmbedding |-> "absent"]>>
    /\ UNCHANGED <<cliCall, cliWire, cliAttempt>>
    /\ UNCHANGED exceptCli

\* pollFileStatus: the loop condition holds and the status fetch is sent
PollFetch ==
    /\ cliPc = "start"
    /\ cliCall.op = "pollFileStatus"
    /\ PollLoopRuns(cliAttempt, cliCall.maxAttempts)
    /\ cliWire' = Append(cliWire, StatusRequest(cliCall))
    /\ cliPc' = "fetching"
    /\ UNCHANGED <<cliCall, cliAttempt, cliLast, cliReturn, cliError>>
    /\ UNCHANGED exceptCli

\* pollFileStatus: the loop condition fails; return false
PollExhausted ==
    /\ cliPc = "start"
    /\ cliCall.op = "pollFileStatus"
    /\ ~PollLoopRuns(cliAttempt, cliCall.maxAttempts)
    /\ cliPc' = "returned"
    /\ cliReturn' = <<FALSE>>
    /\ UNCHANGED <<cliCall, cliWire, cliAttempt, cliLast, cliError>>
    /\ UNCHANGED exceptCli

\* pollFileStatus: the status response arrives
PollResponse ==
    /\ cliPc = "fetching"
    /\ cliCall.op = "pollFileStatus"
    /\ \E status \in Statuses, finish \in FinishValues :
           LET out == PollOutcome(status, finish)
           IN  /\ cliPc' = out.pc
               /\ cliReturn' = out.return
               /\ cliError' = out.error
               /\ cliLast' = <<[status |-> status, finishEmbedding |-> finish]>>
    /\ UNCHANGED <<cliCall, cliWire, cliAttempt>>
    /\ UNCHANGED exceptCli

\* pollFileStatus: the setTimeout of line 170 fires; i++
PollWake ==
    /\ cliPc = "sleeping"
    /\ cliAttempt' = cliAttempt + 1
    /\ cliPc' = "start"
    /\ UNCHANGED <<cliCall, cliWire, cliLast, cliReturn, cliError>>
    /\ UNCHANGED exceptCli

NextClient ==
    \/ SearchFetch
    \/ SearchResponse
    \/ FileFetch
    \/ FileResponse
    \/ PollFetch
    \/ PollExhausted
    \/ PollResponse
    \/ PollWake

----------------------------------------------------------------------------
(* Properties of the client                                                *)

IsSearch == cliCall.op = "semanticSearch"
IsPoll == cliCall.op = "pollFileStatus"
Answered == cliPc \in {"returned", "threw"}
FetchCount == Len(cliWire)

\* C8: a semantic search answered with status 404 returns the empty result
\* {chunks: [], queryId: ""} and does not throw; only the other non-success
\* statuses produce an error.
C8_NotFoundIsEmptyResult ==
    (IsSearch /\ Answered) =>
        /\ cliLast[1].status = 404 =>
               (cliPc = "returned" /\ cliReturn = <<[chunks |-> <<>>, queryId |-> ""]>>)
        /\ cliPc = "threw" =>
               (cliLast[1].status # 404 /\ ~(cliLast[1].status \in 200..299))

\* C9: with maxAttempts = n, a poll whose status responses all succeed without
\* ever reporting finishEmbedding = true sends exactly n status fetches and then
\* returns false; it never sends an (n+1)-th fetch.
C9_PollIsBounded ==
    IsPoll =>
        /\ FetchCount <= cliCall.maxAttempts
        /\ (cliPc = "returned" /\ cliReturn = <<FALSE>>) =>
               FetchCount = cliCall.maxAttempts
        /\ (cliPc = "start" /\ FetchCount = cliCall.maxAttempts) =>
               (ENABLED PollExhausted /\ ~ENABLED PollFetch)
        /\ (cliPc = "sleeping") =>
               (cliLast[1].status \in 200..299 /\ cliLast[1].finishEmbedding # "true")

C9_Witness ==
    /\ IsPoll
    /\ cliCall.maxAttempts = 3
    /\ cliPc = "returned"
    /\ cliReturn = <<FALSE>>
    /\ FetchCount = 3
    /\ cliLast[1].status = 200 /\ cliLast[1].finishEmbedding = "false"

\* C22: in pollFileStatus a status fetch answered with a non-success status on
\* an attempt before the last does not end the poll: the call neither throws nor
\* returns on it, and goes on to the next attempt.
C22_FailedFetchDoesNotEndPoll ==
    (/\ IsPoll
     /\ cliPc # "fetching"
     /\ cliLast # <<>>
     /\ ~(cliLast[1].status \in 200..299)
     /\ FetchCount < cliCall.maxAttempts)
        => ~Answered

\* the request carries the X-User-ID header with a non-empty value
CarriesTenant(request) ==
    \E h \in request.headers : h[1] = "X-User-ID" /\ h[2] # ""

\* C11 (client side): every request the client sends to the Vector Index
\* Service, the status fetch of pollFileStatus included, carries the X-User-ID
\* header with a non-empty tenant identifier.
C11_ClientRequestsCarryTenant ==
    \A i \in 1..Len(cliWire) : CarriesTenant(cliWire[i])


----------------------------------------------------------------------------
(* RagFileManager.svelte: the list, its polling timer, upload and delete.  *)
(* A handler runs to its next await in one step; a response resumes it.    *)
(* The Vector Index Service answers a request at some moment between its   *)
(* being sent and its response being delivered, and responses are          *)
(* delivered in any order.                                                 *)

MaxFiles == 1      \* records the service creates in one run
MaxInflight == 2   \* requests awaiting a response at one time

PollIntervalMs == 1000

\* files.some((f) => !f.finishEmbedding)
hasProcessing(list) == \E i \in 1..Len(list) : ~list[i].finishEmbedding

\* setInterval: the handle of a new timer
NewTimer(timers) == CHOOSE t \in 1..(Cardinality(timers) + 1) : t \notin timers

\* a plausible slip: startPolling without its `if (pollInterval) return`
startPollingUnguarded(interval, timers) ==
    <<NewTimer(timers), timers \cup {NewTimer(timers)}>>

\* startPolling(): <<pollInterval, timers>> afterwards
startPolling(interval, timers) ==
    IF interval # 0 THEN <<interval, timers>>
    ELSE <<NewTimer(timers), timers \cup {NewTimer(timers)}>>

\* stopPolling(): <<pollInterval, timers>> afterwards
stopPolling(interval, timers) ==
    IF interval # 0 THEN <<0, timers \ {interval}>>
    ELSE <<interval, timers>>

\* a plausible slip: the branch that stops the timer is missing
PollingAfterNeverStops(list, interval, timers) ==
    IF hasProcessing(list) THEN startPolling(interval, timers)
    ELSE <<interval, timers>>

\* lines 152-158: the timer after a list has been stored
PollingAfter(list, interval, timers) ==
    IF hasProcessing(list) THEN startPolling(interval, timers)
    ELSE stopPolling(interval, timers)

\* a plausible slip: the catch block stops the polling of a failed silent fetch
PollingAfterFailureStops(interval, timers) == stopPolling(interval, timers)

\* lines 159-166: the catch block leaves the timer alone
PollingAfterFailure(interval, timers) == <<interval, timers>>

\* a request of the browser client
Request(op, silent, chain, fileId) ==
    [op |-> op, silent |-> silent, chain |-> chain, fileId |-> fileId,
     handled |-> FALSE, ok |-> FALSE, snapshot |-> <<>>, overtaken |-> FALSE]

RemoveAt(seq, i) == SubSeq(seq, 1, i - 1) \o SubSeq(seq, i + 1, Len(seq))

\* the requests left when the i-th response has been applied: those sent before it
\* have been overtaken
AfterApplied(inflight, i) ==
    LET rest == RemoveAt(inflight, i)
    IN  [k \in 1..Len(rest) |->
            IF k < i THEN [rest[k] EXCEPT !.overtaken = TRUE] ELSE rest[k]]

\* RagFileMetadata as the service creates it
NewRecord(id) ==
    [id |-> id, chunkingStatus |-> "pending", embeddingStatus |-> "pending",
     finishEmbedding |-> FALSE, chunkingError |-> FALSE, embeddingError |-> FALSE]

\* the records a record may turn into: each track goes pending, processing, then
\* success or failed; what finishEmbedding a failed record carries is the service's choice
Successors(r) ==
    IF r.chunkingStatus = "pending" THEN { [r EXCEPT !.chunkingStatus = "processing"] }
    ELSE IF r.chunkingStatus = "processing"
    THEN { [r EXCEPT !.chunkingStatus = "success", !.embeddingStatus = "processing"] }
         \cup { [r EXCEPT !.chunkingStatus = "failed", !.chunkingError = TRUE,
                          !.finishEmbedding = fin] : fin \in BOOLEAN }
    ELSE IF r.chunkingStatus = "success" /\ r.embeddingStatus = "processing"
    THEN { [r EXCEPT !.embeddingStatus = "success", !.finishEmbedding = TRUE] }
         \cup { [r EXCEPT !.embeddingStatus = "failed", !.embeddingError = TRUE,
                          !.finishEmbedding = fin] : fin \in BOOLEAN }
    ELSE {}

\* a badge whose second branch looks at embeddingError only
badgeIgnoresChunkingError(file) ==
    IF ~file.finishEmbedding THEN "Processing"
    ELSE IF file.embeddingError THEN "Failed"
    ELSE "Ready"

\* the status badge of a row, lines 349-369
badge(file) ==
    IF ~file.finishEmbedding THEN "Processing"
    ELSE IF file.chunkingError \/ file.embeddingError THEN "Failed"
    ELSE "Ready"

IdleFiles ==
    /\ files = <<>>
    /\ loading = FALSE
    /\ uploading = FALSE
    /\ errorMsg = ""
    /\ pollInterval = 0
    /\ fmTimers = {}
    /\ fmPhase = "off"
    /\ fmInflight = <<>>
    /\ fmLast = [handler |-> "none", silent |-> FALSE]
    /\ srvFiles = <<>>
    /\ srvCreated = 0

\* a record whose two tracks have succeeded
Indexed(r) ==
    [r EXCEPT !.chunkingStatus = "success", !.embeddingStatus = "success",
              !.finishEmbedding = TRUE]

\* the component constructed; the tenant may already own a record indexed earlier
CreatedFiles ==
    /\ files = <<>>
    /\ loading = FALSE
    /\ uploading = FALSE
    /\ errorMsg = ""
    /\ pollInterval = 0
    /\ fmTimers = {}
    /\ fmPhase = "created"
    /\ fmInflight = <<>>
    /\ fmLast = [handler |-> "none", silent |-> FALSE]
    /\ srvCreated = 0
    /\ srvFiles \in {<<>>, <<Indexed(NewRecord(0))>>}

\* onMount: loadFiles() up to its await
Mount ==
    /\ fmPhase = "created"
    /\ fmPhase' = "mounted"
    /\ loading' = TRUE
    /\ errorMsg' = ""
    /\ fmInflight' = Append(fmInflight, Request("list", FALSE, "none", 0))
    /\ fmLast' = [handler |-> "mount", silent |-> FALSE]
    /\ UNCHANGED <<files, uploading, pollInterval, fmTimers, srvFiles, srvCreated>>
    /\ UNCHANGED exceptFm

\* an interval timer fires: loadFiles(true) up to its await
Tick ==
    /\ fmTimers # {}
    /\ Len(fmInflight) < MaxInflight
    /\ errorMsg' = ""
    /\ fmInflight' = Append(fmInflight, Request("list", TRUE, "none", 0))
    /\ fmLast' = [handler |-> "tick", silent |-> TRUE]
    /\ UNCHANGED <<files, loading, uploading, pollInterval, fmTimers, fmPhase,
                   srvFiles, srvCreated>>
    /\ UNCHANGED exceptFm

\* loadFiles resumes with the list: lines 148-158, the finally block, and what
\* the awaiting handleUpload does next
ListResponseOk ==
    /\ \E i \in 1..Len(fmInflight) :
           LET req == fmInflight[i]
               after == PollingAfter(req.snapshot, pollInterval, fmTimers)
           IN  /\ req.op = "list" /\ req.handled /\ req.ok
               /\ files' = req.snapshot
               /\ pollInterval' = after[1]
               /\ fmTimers' = after[2]
               /\ loading' = IF req.silent THEN loading ELSE FALSE
               /\ uploading' = IF req.chain = "upload" THEN FALSE ELSE uploading
               /\ fmInflight' = AfterApplied(fmInflight, i)
               /\ fmLast' = [handler |-> "listOk", silent |-> req.silent]
    /\ UNCHANGED <<errorMsg, fmPhase, srvFiles, srvCreated>>
    /\ UNCHANGED exceptFm

\* loadFiles resumes with a rejection: lines 159-169
ListResponseFails ==
    /\ \E i \in 1..Len(fmInflight) :
           LET req == fmInflight[i]
           IN  /\ req.op = "list" /\ req.handled /\ ~req.ok
               /\ errorMsg' = IF req.silent THEN errorMsg ELSE "Failed to list files"
               /\ loading' = IF req.silent THEN loading ELSE FALSE
               /\ uploading' = IF req.chain = "upload" THEN FALSE ELSE uploading
               /\ fmInflight' = RemoveAt(fmInflight, i)
               /\ fmLast' = [handler |-> "listFailed", silent |-> req.silent]
    /\ pollInterval' = PollingAfterFailure(pollInterval, fmTimers)[1]
    /\ fmTimers' = PollingAfterFailure(pollInterval, fmTimers)[2]
    /\ UNCHANGED <<files, fmPhase, srvFiles, srvCreated>>
    /\ UNCHANGED exceptFm

\* handleUpload up to its await; the button is disabled while uploading or loading
StartUpload ==
    /\ fmPhase = "mounted"
    /\ ~uploading /\ ~loading
    /\ srvCreated < MaxFiles
    /\ Len(fmInflight) < MaxInflight
    /\ uploading' = TRUE
    /\ errorMsg' = ""
    /\ fmInflight' = Append(fmInflight, Request("upload", FALSE, "upload", 0))
    /\ fmLast' = [handler |-> "upload", silent |-> FALSE]
    /\ UNCHANGED <<files, loading, pollInterval, fmTimers, fmPhase, srvFiles, srvCreated>>
    /\ UNCHANGED exceptFm

\* handleUpload resumes after uploadFiles: loadFiles() up to its await
UploadResponseOk ==
    /\ \E i \in 1..Len(fmInflight) :
           /\ fmInflight[i].op = "upload" /\ fmInflight[i].handled /\ fmInflight[i].ok
           /\ fmInflight' = Append(RemoveAt(fmInflight, i),
                                   Request("list", FALSE, "upload", 0))
    /\ loading' = TRUE
    /\ errorMsg' = ""
    /\ fmLast' = [handler |-> "uploadOk", silent |-> FALSE]
    /\ UNCHANGED <<files, uploading, pollInterval, fmTimers, fmPhase, srvFiles, srvCreated>>
    /\ UNCHANGED exceptFm

\* handleUpload resumes with a rejection: lines 191-196
UploadResponseFails ==
    /\ \E i \in 1..Len(fmInflight) :
           /\ fmInflight[i].op = "upload" /\ fmInflight[i].handled /\ ~fmInflight[i].ok
           /\ fmInflight' = RemoveAt(fmInflight, i)
    /\ errorMsg' = "Upload failed"
    /\ uploading' = FALSE
    /\ fmLast' = [handler |-> "uploadFailed", silent |-> FALSE]
    /\ UNCHANGED <<files, loading, pollInterval, fmTimers, fmPhase, srvFiles, srvCreated>>
    /\ UNCHANGED exceptFm

\* deleteFile up to its await; the rows are shown only while not loading
StartDelete ==
    /\ fmPhase = "mounted"
    /\ ~loading
    /\ Len(fmInflight) < MaxInflight
    /\ \E k \in 1..Len(files) :
           fmInflight' = Append(fmInflight, Request("delete", FALSE, "delete", files[k].id))
    /\ fmLast' = [handler |-> "delete", silent |-> FALSE]
    /\ UNCHANGED <<files, loading, uploading, errorMsg, pollInterval, fmTimers, fmPhase,
                   srvFiles, srvCreated>>
    /\ UNCHANGED exceptFm

\* deleteFile resumes after ragClient.deleteFile: loadFiles() up to its await
DeleteResponseOk ==
    /\ \E i \in 1..Len(fmInflight) :
           /\ fmInflight[i].op = "delete" /\ fmInflight[i].handled /\ fmInflight[i].ok
           /\ fmInflight' = Append(RemoveAt(fmInflight, i),
                                   Request("list", FALSE, "delete", 0))
    /\ loading' = TRUE
    /\ errorMsg' = ""
    /\ fmLast' = [handler |-> "deleteOk", silent |-> FALSE]
    /\ UNCHANGED <<files, uploading, pollInterval, fmTimers, fmPhase, srvFiles, srvCreated>>
    /\ UNCHANGED exceptFm

\* deleteFile resumes with a rejection: alert, lines 209-212
DeleteResponseFails ==
    /\ \E i \in 1..Len(fmInflight) :
           /\ fmInflight[i].op = "delete" /\ fmInflight[i].handled /\ ~fmInflight[i].ok
           /\ fmInflight' = RemoveAt(fmInflight, i)
    /\ fmLast' = [handler |-> "deleteFailed", silent |-> FALSE]
    /\ UNCHANGED <<files, loading, uploading, errorMsg, pollInterval, fmTimers, fmPhase,
                   srvFiles, srvCreated>>
    /\ UNCHANGED exceptFm

\* onDestroy: stopPolling()
Destroy ==
    /\ fmPhase = "mounted"
    /\ fmPhase' = "destroyed"
    /\ LET after == stopPolling(pollInterval, fmTimers)
       IN  pollInterval' = after[1] /\ fmTimers' = after[2]
    /\ fmLast' = [handler |-> "destroy", silent |-> FALSE]
    /\ UNCHANGED <<files, loading, uploading, errorMsg, fmInflight, srvFiles, srvCreated>>
    /\ UNCHANGED exceptFm

\* the service answers a list request: the records as they are now, or a failure
ServiceAnswersList ==
    /\ \E i \in 1..Len(fmInflight), success \in BOOLEAN :
           /\ fmInflight[i].op = "list" /\ ~fmInflight[i].handled
           /\ fmInflight' = [fmInflight EXCEPT ![i].handled = TRUE, ![i].ok = success,
                                               ![i].snapshot = IF success THEN srvFiles ELSE <<>>]
    /\ UNCHANGED <<files, loading, uploading, errorMsg, pollInterval, fmTimers, fmPhase,
                   fmLast, srvFiles, srvCreated>>
    /\ UNCHANGED exceptFm

\* the case of ServiceAnswersList in which the fetch succeeds
ServiceListsRecords ==
    /\ \E i \in 1..Len(fmInflight) :
           /\ fmInflight[i].op = "list" /\ ~fmInflight[i].handled
           /\ fmInflight' = [fmInflight EXCEPT ![i].handled = TRUE, ![i].ok = TRUE,
                                               ![i].snapshot = srvFiles]
    /\ UNCHANGED <<files, loading, uploading, errorMsg, pollInterval, fmTimers, fmPhase,
                   fmLast, srvFiles, srvCreated>>
    /\ UNCHANGED exceptFm

\* the service answers an upload: a new record, or a failure
ServiceAnswersUpload ==
    /\ \E i \in 1..Len(fmInflight), success \in BOOLEAN :
           /\ fmInflight[i].op = "upload" /\ ~fmInflight[i].handled
           /\ fmInflight' = [fmInflight EXCEPT ![i].handled = TRUE, ![i].ok = success]
           /\ srvCreated' = IF success THEN srvCreated + 1 ELSE srvCreated
           /\ srvFiles' = IF success THEN Append(srvFiles, NewRecord(srvCreated + 1))
                          ELSE srvFiles
    /\ UNCHANGED <<files, loading, uploading, errorMsg, pollInterval, fmTimers, fmPhase, fmLast>>
    /\ UNCHANGED exceptFm

\* the service answers a delete: the record is gone, or a failure (always one
\* when there is no such record)
ServiceAnswersDelete ==
    /\ \E i \in 1..Len(fmInflight), success \in BOOLEAN :
           LET IsOther(r) == r.id # fmInflight[i].fileId
               exists == \E k \in 1..Len(srvFiles) : srvFiles[k].id = fmInflight[i].fileId
           IN  /\ fmInflight[i].op = "delete" /\ ~fmInflight[i].handled
               /\ fmInflight' = [fmInflight EXCEPT ![i].handled = TRUE,
                                                   ![i].ok = (success /\ exists)]
               /\ srvFiles' = IF success THEN SelectSeq(srvFiles, IsOther) ELSE srvFiles
    /\ UNCHANGED <<files, loading, uploading, errorMsg, pollInterval, fmTimers, fmPhase,
                   fmLast, srvCreated>>
    /\ UNCHANGED exceptFm

\* the service moves a record along its chunking and embedding tracks
ServiceProgress ==
    /\ \E k \in 1..Len(srvFiles) : \E next \in Successors(srvFiles[k]) :
           srvFiles' = [srvFiles EXCEPT ![k] = next]
    /\ UNCHANGED <<files, loading, uploading, errorMsg, pollInterval, fmTimers, fmPhase,
                   fmInflight, fmLast, srvCreated>>
    /\ UNCHANGED exceptFm

NextFiles ==
    \/ Mount
    \/ Tick
    \/ ListResponseOk
    \/ ListResponseFails
    \/ StartUpload
    \/ UploadResponseOk
    \/ UploadResponseFails
    \/ StartDelete
    \/ DeleteResponseOk
    \/ DeleteResponseFails
    \/ Destroy
    \/ ServiceAnswersList
    \/ ServiceAnswersUpload
    \/ ServiceAnswersDelete
    \/ ServiceProgress

----------------------------------------------------------------------------
(* The proxy handlers of the application server: POST /api/v1/rag/file/upload, *)
(* GET /api/v1/rag/files and DELETE /api/v1/rag/file/[id].  "" stands for a    *)
(* value that is undefined or empty.                                          *)

Unauthorized == 401
BadRequest == 400
InternalError == 500

\* locals.user?._id?.toString() || locals.sessionId
tenantOf(locals) == IF locals.user # "" THEN locals.user ELSE locals.sessionId

\* a plausible slip: the check of the resolved identifier is missing
MissingTenantUnchecked(userId) == FALSE

\* if (!userId)
MissingTenant(userId) == userId = ""

\* response.statusText of the service's answer
statusTextOf(status) ==
    CASE status = 400 -> "Bad Request"
      [] status = 401 -> "Unauthorized"
      [] status = 403 -> "Forbidden"
      [] status = 404 -> "Not Found"
      [] status = 500 -> "Internal Server Error"
      [] status = 503 -> "Service Unavailable"
      [] OTHER -> "OK"

\* a handler that takes the tenant from the X-User-ID header of the incoming
\* request when the client sends one
ProxyRequestTrustsClient(call) ==
    [path |-> IF call.handler = "GET" THEN <<"/api/v1/rag/files">>
              ELSE IF call.handler = "POST" THEN <<"/api/v1/rag/file/upload">>
              ELSE <<"/api/v1/rag/file/", call.fileId>>,
     method |-> call.handler,
     headers |-> { <<"X-User-ID", IF call.clientUserId # "" THEN call.clientUserId
                                  ELSE tenantOf(call.locals)>> },
     body |-> IF call.handler = "POST" THEN <<call.collection>> ELSE <<>>]

\* the fetch each handler sends; POST forwards the collection field of the form
ProxyRequest(call) ==
    [path |-> IF call.handler = "GET" THEN <<"/api/v1/rag/files">>
              ELSE IF call.handler = "POST" THEN <<"/api/v1/rag/file/upload">>
              ELSE <<"/api/v1/rag/file/", call.fileId>>,
     method |-> call.handler,
     headers |-> { <<"X-User-ID", tenantOf(call.locals)>> },
     body |-> IF call.handler = "POST" THEN <<call.collection>> ELSE <<>>]

\* the checks before the try block: <<>> when the handler goes on, else the
\* HttpError thrown
ProxyRejection(call) ==
    IF MissingTenant(tenantOf(call.locals))
    THEN <<[status |-> Unauthorized, message |-> "Unauthorized"]>>
    ELSE IF call.handler = "DELETE" /\ call.fileId = ""
    THEN <<[status |-> BadRequest, message |-> "File ID is required"]>>
    ELSE <<>>

\* if (err && typeof err === "object" && "status" in err) throw err;
RethrowsHttpError(handler) == handler \in {"POST", "DELETE"}

\* the message of error(500, ...) in each catch block
CatchMessage(handler) ==
    IF handler = "GET" THEN "Failed to fetch files from RAG service"
    ELSE IF handler = "POST" THEN "Failed to upload files"
    ELSE "Failed to delete file"

\* the response of the handler when the service answered: answer.status is 0
\* when fetch rejected; answer.parsable tells whether response.json() succeeds
ProxyOutcome(handler, answer) ==
    IF answer.status = 0
    THEN [status |-> InternalError, message |-> CatchMessage(handler)]
    ELSE IF ~ok(answer.status)
    THEN IF RethrowsHttpError(handler)
         THEN [status |-> answer.status,
               message |-> IF answer.text # "" THEN answer.text
                           ELSE statusTextOf(answer.status)]
         ELSE [status |-> InternalError, message |-> CatchMessage(handler)]
    ELSE IF handler # "DELETE" /\ ~answer.parsable
    THEN [status |-> InternalError, message |-> CatchMessage(handler)]
    ELSE [status |-> 200, message |-> ""]

ProxyHandlers == {"POST", "GET", "DELETE"}
ProxyLocals == [user : {"", "user-1"}, sessionId : {"", "session-1"}]
\* what the client controls: the path parameter, an X-User-ID header of its own
\* on the incoming request, and the collection field of the uploaded form
ClientUserIds == {"", "user-2"}
Collections == {"", "user-2"}
ProxyCalls ==
    [handler : ProxyHandlers, locals : ProxyLocals, fileId : {"", "f1"},
     clientUserId : ClientUserIds, collection : Collections]
UpstreamStatuses == {200, 201, 400, 401, 403, 404, 500, 503}
UpstreamAnswers ==
    [status : UpstreamStatuses, text : ErrorTexts, parsable : BOOLEAN]
    \cup {[status |-> 0, text |-> "", parsable |-> FALSE]}

IdleProxy ==
    /\ pxCall = [handler |-> "none", locals |-> [user |-> "", sessionId |-> ""],
                 fileId |-> "", clientUserId |-> "", collection |-> ""]
    /\ pxPc = "off"
    /\ pxWire = <<>>
    /\ pxUpstream = <<>>
    /\ pxResponse = <<>>

CalledProxy ==
    /\ pxCall \in ProxyCalls
    /\ pxPc = "start"
    /\ pxWire = <<>>
    /\ pxUpstream = <<>>
    /\ pxResponse = <<>>

\* the handler is refused before its try block
ProxyRejects ==
    /\ pxPc = "start"
    /\ ProxyRejection(pxCall) # <<>>
    /\ pxResponse' = ProxyRejection(pxCall)
    /\ pxPc' = "responded"
    /\ UNCHANGED <<pxCall, pxWire, pxUpstream>>
    /\ UNCHANGED exceptPx

\* POST only: request.formData() rejects, the catch block answers 500
ProxyBodyUnreadable ==
    /\ pxPc = "start"
    /\ ProxyRejection(pxCall) = <<>>
    /\ pxCall.handler = "POST"
    /\ pxResponse' = <<[status |-> InternalError, message |-> CatchMessage(pxCall.handler)]>>
    /\ pxPc' = "responded"
    /\ UNCHANGED <<pxCall, pxWire, pxUpstream>>
    /\ UNCHANGED exceptPx

\* the handler up to its await fetch(...)
ProxyFetch ==
    /\ pxPc = "start"
    /\ ProxyRejection(pxCall) = <<>>
    /\ pxWire' = Append(pxWire, ProxyRequest(pxCall))
    /\ pxPc' = "fetching"
    /\ UNCHANGED <<pxCall, pxUpstream, pxResponse>>
    /\ UNCHANGED exceptPx

\* the handler from the answer of the service to its own response
ProxyAnswer ==
    /\ pxPc = "fetching"
    /\ \E answer \in UpstreamAnswers :
           /\ pxUpstream' = <<answer>>
           /\ pxResponse' = <<ProxyOutcome(pxCall.handler, answer)>>
    /\ pxPc' = "responded"
    /\ UNCHANGED <<pxCall, pxWire>>
    /\ UNCHANGED exceptPx

NextProxy ==
    \/ ProxyRejects
    \/ ProxyBodyUnreadable
    \/ ProxyFetch
    \/ ProxyAnswer

----------------------------------------------------------------------------
(* Properties of the proxy handlers.                                       *)

ProxyResponded == pxPc = "responded"
NoTenantResolved == pxCall.locals.user = "" /\ pxCall.locals.sessionId = ""

\* C12: in each proxy handler, when neither locals.user._id nor
\* locals.sessionId gives a tenant identifier, no request is ever sent to the
\* Vector Index Service and the handler answers 401 Unauthorized.
C12_UnresolvedTenantIsRefused ==
    (pxPc # "off" /\ NoTenantResolved) =>
        /\ pxWire = <<>>
        /\ pxPc \in {"start", "responded"}
        /\ ProxyResponded =>
               pxResponse = <<[status |-> 401, message |-> "Unauthorized"]>>

\* C12 witness: the DELETE handler, called with a file id but without user and
\* session, has answered 401 and has sent nothing.
C12_Witness ==
    /\ ProxyResponded
    /\ pxCall.handler = "DELETE" /\ pxCall.fileId # ""
    /\ NoTenantResolved
    /\ pxResponse[1].status = 401
    /\ pxWire = <<>>

\* the values of the X-User-ID headers of a request
TenantsSent(request) == { h[2] : h \in { g \in request.headers : g[1] = "X-User-ID" } }

\* C24: the X-User-ID a proxy handler forwards is locals.user._id when a user
\* is present and locals.sessionId otherwise, whatever header, form field or
\* path parameter the client supplies; so two calls with the same locals send
\* the same X-User-ID.
C24_TenantComesFromLocalsOnly ==
    \A i \in 1..Len(pxWire) :
        TenantsSent(pxWire[i]) =
            { IF pxCall.locals.user # "" THEN pxCall.locals.user
              ELSE pxCall.locals.sessionId }

\* C24 witness: a request was forwarded for a signed-in user while the client
\* sent an X-User-ID header and a form field naming another tenant.
C24_Witness ==
    /\ pxWire # <<>>
    /\ pxCall.handler = "POST"
    /\ pxCall.locals.user = "user-1"
    /\ pxCall.clientUserId = "user-2"
    /\ pxCall.collection = "user-2"
    /\ TenantsSent(pxWire[1]) = {"user-1"}

\* C13 (proxy side): a non-success status S of the Vector Index Service reaches
\* the caller of the handler as an error with that same status S and a message.
C13_UpstreamStatusIsKept ==
    (ProxyResponded /\ pxUpstream # <<>>
        /\ pxUpstream[1].status # 0 /\ ~(pxUpstream[1].status \in 200..299)) =>
        /\ pxResponse[1].status = pxUpstream[1].status
        /\ pxResponse[1].message # ""

----------------------------------------------------------------------------
(* Properties of the file manager.                                         *)

\* the interval timer is running
TimerRunning == pollInterval # 0 /\ pollInterval \in fmTimers

\* some record displayed is unfinished
SomeUnfinished == \E k \in 1..Len(files) : files[k].finishEmbedding = FALSE

\* C10: when loadFiles has just stored a list response, the interval timer is
\* running exactly if some record of that response has finishEmbedding false;
\* so a poll that finds every record finished stops the polling.
C10_TimerIffUnfinished ==
    fmLast.handler = "listOk" => (TimerRunning <=> SomeUnfinished)

\* C10 witness: a poll started by the timer has returned the uploaded record
\* finished, no record is unfinished, and the timer is gone.
C10_Witness ==
    /\ fmLast = [handler |-> "listOk", silent |-> TRUE]
    /\ \E k \in 1..Len(files) :
           /\ files[k].id = srvCreated /\ srvCreated > 0
           /\ files[k].embeddingStatus = "success" /\ files[k].finishEmbedding
    /\ ~SomeUnfinished
    /\ pollInterval = 0 /\ fmTimers = {}

\* the last handler that ran was the catch block of a fetch sent by the timer
SilentFetchFailed == fmLast = [handler |-> "listFailed", silent |-> TRUE]

\* C14: when a list fetch sent by the poll timer fails, the step that handles
\* the failure leaves the timer, the displayed records and the error message
\* as they were, and while the timer runs the next tick can send a new fetch.
C14_PollFailureIsOnlyLogged ==
    /\ [][SilentFetchFailed' =>
            /\ files' = files
            /\ pollInterval' = pollInterval
            /\ fmTimers' = fmTimers
            /\ errorMsg' = errorMsg]_vars
    /\ []((SilentFetchFailed /\ TimerRunning) => ENABLED Tick)

\* C14 witness: a fetch of the timer has failed while a record is displayed as
\* unfinished, and the timer still runs.
C14_Witness ==
    /\ SilentFetchFailed
    /\ TimerRunning
    /\ SomeUnfinished
    /\ fmPhase = "mounted"

\* the steps the user takes: choosing files, deleting a row, closing the manager
UserActs == StartUpload \/ StartDelete \/ Destroy

\* C21: when every list fetch eventually succeeds and every record reaches a
\* terminal state (both are the fairness of SpecFilesFair), then, once the user
\* uploads and deletes nothing more, the polling stops and stays stopped.
C21_PollingEventuallyStops ==
    ([]<><<UserActs>>_vars) \/ <>[](~TimerRunning)

\* C15: once onDestroy has run no polling timer is running, whatever ticks and
\* list responses follow.
C15_NoTimerAfterDestroy ==
    fmPhase = "destroyed" => (fmTimers = {} /\ pollInterval = 0)

\* the FileRecord invariant: finishEmbedding exactly if embeddingStatus is success
RespectsInvariant(file) == file.finishEmbedding <=> (file.embeddingStatus = "success")

\* chunking or embedding has failed for good and the error is present
TerminallyFailed(file) ==
    \/ file.chunkingStatus = "failed" /\ file.chunkingError
    \/ file.embeddingStatus = "failed" /\ file.embeddingError

\* C16: every displayed record that respects the FileRecord invariant and has
\* terminally failed carries the badge Failed, never Processing.
C16_FailedIsShownAsFailed ==
    \A k \in 1..Len(files) :
        (RespectsInvariant(files[k]) /\ TerminallyFailed(files[k])) =>
            badge(files[k]) = "Failed"

\* a step of loadFiles(true): the timer's call up to its await, or its
\* resumption with the list or with a rejection
SilentPollStep ==
    \/ Tick
    \/ (ListResponseOk \/ ListResponseFails) /\ fmLast'.silent

\* C27: a silent background poll leaves the loading flag and the error message
\* as they were, whether its fetch succeeds or fails; an error message set by a
\* failed upload or a failed non-silent load survives later poll ticks.
C27_SilentPollKeepsLoadingAndError ==
    [][SilentPollStep => (loading' = loading /\ errorMsg' = errorMsg)]_vars

\* C26: at every moment at most one interval timer is live, and a live timer
\* is the one stored in pollInterval: startPolling while a timer runs creates no
\* second one, and a timer that is no longer stored has been cleared.
C26_AtMostOneTimer ==
    /\ Cardinality(fmTimers) <= 1
    /\ \A t \in fmTimers : t = pollInterval /\ t # 0

\* C26 witness: a response to a fetch the timer sent has just been stored with
\* an unfinished record, so startPolling has been called, and one timer is live.
C26_Witness ==
    /\ fmLast = [handler |-> "listOk", silent |-> TRUE]
    /\ \E k \in 1..Len(files) : ~files[k].finishEmbedding
    /\ pollInterval # 0
    /\ fmTimers = {pollInterval}

\* the step applies the list response of a request issued before one whose
\* response has been applied already
AppliesOvertaken ==
    \E i \in 1..Len(fmInflight) :
        /\ fmInflight[i].op = "list" /\ fmInflight[i].handled /\ fmInflight[i].ok
        /\ fmInflight[i].overtaken
        /\ files' = fmInflight[i].snapshot
        /\ fmInflight' = AfterApplied(fmInflight, i)

\* C25: list responses are applied in the order their requests were issued:
\* no step that stores a list and decides on the polling applies the response
\* of a request issued earlier than one whose response was applied before.
C25_ListResponsesAppliedInOrder ==
    [][ListResponseOk => ~AppliesOvertaken]_vars

\* C23: every displayed record carries exactly one of the badges Processing,
\* Failed, Ready, and carries Ready only when finishEmbedding is true and
\* neither chunkingError nor embeddingError is present.
C23_ReadyOnlyWhenFinishedWithoutError ==
    \A k \in 1..Len(files) :
        /\ Cardinality({b \in {"Processing", "Failed", "Ready"} : b = badge(files[k])}) = 1
        /\ badge(files[k]) = "Ready" =>
               /\ files[k].finishEmbedding
               /\ ~files[k].chunkingError
               /\ ~files[k].embeddingError

\* displayed at once or in turn: a finished record with a chunking error, and so
\* not Ready
C23_Witness ==
    \E k \in 1..Len(files) :
        /\ files[k].finishEmbedding
        /\ files[k].chunkingError
        /\ badge(files[k]) = "Failed"

----------------------------------------------------------------------------
(* The specifications: each component runs with the others idle            *)

InitRewrite == CalledRewrite /\ IdleContext /\ IdleClient /\ IdleFiles /\ IdleProxy

SpecRewrite == InitRewrite /\ [][NextRewrite]_vars

InitContext == CalledContext /\ IdleRewrite /\ IdleClient /\ IdleFiles /\ IdleProxy

SpecContext == InitContext /\ [][NextContext]_vars

InitClient == CalledClient /\ IdleRewrite /\ IdleContext /\ IdleFiles /\ IdleProxy

SpecClient == InitClient /\ [][NextClient]_vars

InitFiles == CreatedFiles /\ IdleRewrite /\ IdleContext /\ IdleClient /\ IdleProxy

SpecFiles == InitFiles /\ [][NextFiles]_vars

\* the timer fires, pending promises settle, the service answers every request,
\* answers list requests with the records again and again, and takes every
\* record to the end of its tracks; what the user does is left open
FairFiles ==
    /\ WF_vars(Mount) /\ WF_vars(Tick)
    /\ WF_vars(ListResponseOk) /\ WF_vars(ListResponseFails)
    /\ WF_vars(UploadResponseOk) /\ WF_vars(UploadResponseFails)
    /\ WF_vars(DeleteResponseOk) /\ WF_vars(DeleteResponseFails)
    /\ SF_vars(ServiceListsRecords)
    /\ WF_vars(ServiceAnswersUpload) /\ WF_vars(ServiceAnswersDelete)
    /\ WF_vars(ServiceProgress)

SpecFilesFair == InitFiles /\ [][NextFiles]_vars /\ FairFiles

InitProxy == CalledProxy /\ IdleRewrite /\ IdleContext /\ IdleClient /\ IdleFiles

SpecProxy == InitProxy /\ [][NextProxy]_vars

InitRewriteRevisions ==
    CalledEitherRevision /\ IdleContext /\ IdleClient /\ IdleFiles /\ IdleProxy

SpecRewriteRevisions == InitRewriteRevisions /\ [][NextRewrite]_vars

=============================================================================
